---------------------------- MODULE Spec2Model ----------------------------
(***************************************************************************)
(* State-machine model of the interest_vault program                       *)
(* (src/programs/interest_vault/src/lib.rs).                               *)
(*                                                                         *)
(* One action per instruction (op_init, op_deposit, op_withdraw,           *)
(* op_donate, op_post_root, op_claim).  An instruction is one atomic step: *)
(* the runtime commits the account writes and the token CPIs of an         *)
(* instruction that returns Ok, and discards all of them when it returns   *)
(* an error or panics, so a rejected instruction is a stuttering step and  *)
(* its error is read off <op>_result in the state it is applied to.        *)
(*                                                                         *)
(* Modelling decisions                                                     *)
(*  - Integer widths are scaled so that the values fit the model checker's *)
(*    32-bit integers: u64 is modelled with 14 bits (U64Max), u128 with 28 *)
(*    bits (U128Max), RAY = 1e12 with 100, the basis-point denominator     *)
(*    10_000 with 10.  The relations the code relies on are kept:          *)
(*    U64Max * RAY <= U128Max, and boost_bps ranges beyond BPS_DENOM.      *)
(*  - u64 `*` and `-` (lib.rs 365-366) panic when the build has overflow   *)
(*    checks and wrap when it has not; the build is not part of the        *)
(*    sources, so overflow_checks is chosen in Init and never changes.     *)
(*  - keccak256 is modelled as a collision-free hash: the digest is the    *)
(*    length-framed preimage, compared lexicographically like the bytes.   *)
(*  - Every instruction is given the vault's own accounts (state, PDA,     *)
(*    token accounts, mints, token program, epoch record, bitmap); what    *)
(*    varies is the instruction data, the signer, and whether donate is    *)
(*    given the epoch record.  Token decimals are the mints' decimals.     *)
(***************************************************************************)
EXTENDS Integers, Sequences, FiniteSets, TLC

VARIABLES
    st,               \* VaultState
    bd,               \* BoostDistributor
    bm,               \* ClaimBitmap256.words
    usdc,             \* base-asset token balances: users, "vault", "boost"
    shares,           \* share-asset token balances of the users
    overflow_checks,  \* build profile: TRUE = arithmetic overflow panics
    last,             \* the last committed instruction: its inputs and output
    ops,              \* how many more instructions the run may commit
    paid_count,       \* history: committed claims per index (counted up to 2)
    paid_sum,         \* history: sum of claim payouts since the last op_post_root
    paid_epoch,       \* history: per index, the epoch its last payout was made under
    donated,          \* history: a donation has been committed
    posted_ok         \* history: every committed posting was well formed

vars == <<st, bd, bm, usdc, shares, overflow_checks, last, ops, paid_count, paid_sum,
          paid_epoch, donated, posted_ok>>

---------------------------------------------------------------------------
(* Widths and program constants (scaled, see above)                        *)

U64Max == 16383
U128Max == 268435455
RAY == 100
BPS_DENOM == 10
BITMAP_BYTES == 32
MAX_PROOF == 16

Users == {"alice", "bob"}
NoKey == "none"
NoPda == <<>>

Min(a, b) == IF a <= b THEN a ELSE b

RECURSIVE SumOver(_, _)
SumOver(f, S) ==
    IF S = {} THEN 0
    ELSE LET x == CHOOSE y \in S : TRUE IN f[x] + SumOver(f, S \ {x})

---------------------------------------------------------------------------
(* Rust integer arithmetic                                                 *)

\* u128::checked_add: -1 stands for None
checked_add_u128(a, b) == IF a + b > U128Max THEN -1 ELSE a + b

\* Mutant of checked_sub_u128: the subtraction wraps instead of failing.
checked_sub_wrapping(a, b) == IF b > a THEN a - b + U128Max + 1 ELSE a - b

\* u128::checked_sub
checked_sub_u128(a, b) == IF b > a THEN -1 ELSE a - b

\* u128::checked_mul; the product is formed only when it fits
checked_mul_u128(a, b) ==
    IF a = 0 \/ b = 0 THEN 0
    ELSE IF a > U128Max \div b THEN -1 ELSE a * b

\* u128::saturating_mul
saturating_mul_u128(a, b) ==
    IF a = 0 \/ b = 0 THEN 0
    ELSE IF a > U128Max \div b THEN U128Max ELSE a * b

\* u64::saturating_add
saturating_add_u64(a, b) == Min(a + b, U64Max)

\* u128 -> u64 try_into: -1 stands for Err
try_into_u64(x) == IF x > U64Max THEN -1 ELSE x

---------------------------------------------------------------------------
(* Hashing and merkle verification                                         *)

RECURSIVE LeBytes(_, _)
\* to_le_bytes: the `width` little-endian bytes of n
LeBytes(n, width) ==
    IF width = 0 THEN <<>> ELSE <<n % 256>> \o LeBytes(n \div 256, width - 1)

INDEX_BYTES == 4
WEIGHT_BYTES == 4

\* b"weight"
TAG_WEIGHT == <<119, 101, 105, 103, 104, 116>>

\* Pubkey bytes of an identity
KeyBytes(who) == IF who = "alice" THEN <<1>> ELSE IF who = "bob" THEN <<2>> ELSE <<0>>

RECURSIVE keccak256(_)
\* The digest of the concatenated chunks.  Every chunk of the program has a
\* fixed width, so the concatenation determines the chunks; the model keeps
\* that by framing each chunk with its length.
keccak256(chunks) ==
    IF chunks = <<>> THEN <<>>
    ELSE <<Len(Head(chunks))>> \o Head(chunks) \o keccak256(Tail(chunks))

\* [u8;32] all zero
ZeroHash == <<0>>

RECURSIVE BytesLE(_, _)
\* `a <= b` on byte arrays: lexicographic
BytesLE(a, b) ==
    IF a = <<>> THEN TRUE
    ELSE IF b = <<>> THEN FALSE
    ELSE IF Head(a) < Head(b) THEN TRUE
    ELSE IF Head(a) > Head(b) THEN FALSE
    ELSE BytesLE(Tail(a), Tail(b))

\* one round of verify_merkle's loop: hash(min || max)
hash_pair(cur, node) ==
    IF BytesLE(cur, node) THEN keccak256(<<cur, node>>) ELSE keccak256(<<node, cur>>)

RECURSIVE merkle_fold(_, _)
merkle_fold(cur, proof) ==
    IF proof = <<>> THEN cur ELSE merkle_fold(hash_pair(cur, Head(proof)), Tail(proof))

verify_merkle(root, leaf, proof) == merkle_fold(leaf, proof) = root

\* Mutant of leaf_hash: the weight is left out of the preimage.
leaf_hash_unweighted(index, claimer, weight) ==
    keccak256(<<TAG_WEIGHT, LeBytes(index, INDEX_BYTES), KeyBytes(claimer)>>)

\* Mutant of leaf_hash: the claimer's key is left out of the preimage.
leaf_hash_unsigned(index, claimer, weight) ==
    keccak256(<<TAG_WEIGHT, LeBytes(index, INDEX_BYTES), LeBytes(weight, WEIGHT_BYTES)>>)

\* domain-separated leaf: keccak(b"weight", index, claimer, weight)
leaf_hash(index, claimer, weight) ==
    keccak256(<<TAG_WEIGHT, LeBytes(index, INDEX_BYTES), KeyBytes(claimer),
                LeBytes(weight, WEIGHT_BYTES)>>)

---------------------------------------------------------------------------
(* Claim bitmap                                                            *)

RECURSIVE Pow2(_)
Pow2(n) == IF n = 0 THEN 1 ELSE 2 * Pow2(n - 1)

\* (words[byte] & mask) != 0
bit_is_set(words, index) == (words[index \div 8] \div Pow2(index % 8)) % 2 = 1

\* Mutant of bit_set: the bit is never marked.
bit_set_skipped(words, index) == words

\* words[byte] |= mask
bit_set(words, index) ==
    IF bit_is_set(words, index) THEN words
    ELSE [words EXCEPT ![index \div 8] = @ + Pow2(index % 8)]

---------------------------------------------------------------------------
(* Accounts                                                                *)

\* The admin whose PDA owns the vault's token accounts and the share mint.
Admin == "alice"

\* derive_vault_pda(program_id, usdc_mint, admin): the mint is the vault's
derive_vault_pda(admin) == <<"vault", admin>>

\* The vault_pda account every instruction is given.
VaultPda == derive_vault_pda(Admin)

\* Zeroed account data, before op_init.
ZeroVaultState ==
    [admin |-> NoKey, operator |-> NoKey, vault_pda |-> NoPda,
     total_shares |-> 0, pps |-> 0, buffered_base |-> 0]

ZeroBoostDistributor ==
    [epoch |-> 0, root |-> ZeroHash, total_weight |-> 0, boost_total |-> 0]

ZeroBitmap == [b \in 0..(BITMAP_BYTES - 1) |-> 0]

\* Total supply of the share mint.
ShareSupply == SumOver(shares, Users)

---------------------------------------------------------------------------
(* Instruction results.  `err` is "Ok" or the ProgramError returned         *)
(* ("TokenError": a token CPI failed; "Panic": the program aborted).  A    *)
(* failed instruction's result carries the state it started from.          *)

Res(e, st2, bd2, bm2, usdc2, shares2, o) ==
    [err |-> e, st |-> st2, bd |-> bd2, bm |-> bm2, usdc |-> usdc2,
     shares |-> shares2, out |-> o]

Fail(e) == Res(e, st, bd, bm, usdc, shares, 0)

\* check_signer
check_signer(is_signer) == is_signer

\* SPL transfer_checked: moves `amount`, fails when the source holds less
can_transfer(bal, src, amount) == bal[src] >= amount

token_transfer(bal, src, dst, amount) ==
    [bal EXCEPT ![src] = @ - amount, ![dst] = @ + amount]

---------------------------------------------------------------------------
(* op_init                                                                 *)

\* *st = VaultState { ... }
new_vault_state(admin, operator) ==
    [admin |-> admin, operator |-> operator, vault_pda |-> derive_vault_pda(admin),
     total_shares |-> 0, pps |-> RAY, buffered_base |-> 0]

init_result(admin, is_signer, operator) ==
    IF ~check_signer(is_signer) THEN Fail("MissingRequiredSignature")
    ELSE IF VaultPda # derive_vault_pda(admin) THEN Fail("InvalidSeeds")
    ELSE Res("Ok", new_vault_state(admin, operator), bd, bm, usdc, shares, 0)

---------------------------------------------------------------------------
(* op_deposit                                                              *)

\* settle buffered if any and shares > 0: the pps after it, -1 on overflow
settle_pps(s) ==
    IF s.buffered_base > 0 /\ s.total_shares > 0
    THEN checked_add_u128(s.pps, (s.buffered_base * RAY) \div s.total_shares)
    ELSE s.pps

\* Mutant of settle_buffered: the buffer is kept after it was folded.
settle_buffered_kept(s) == s.buffered_base

\* st.buffered_base = 0 inside the settlement
settle_buffered(s) ==
    IF s.buffered_base > 0 /\ s.total_shares > 0 THEN 0 ELSE s.buffered_base

\* Mutant of deposit_shares: the quotient is rounded up.
deposit_shares_ceil(amount, pps) == (amount * RAY + pps - 1) \div pps

\* amount as u128 * RAY / st.pps
deposit_shares(amount, pps) == (amount * RAY) \div pps

deposit_result(who, is_signer, amount) ==
    IF ~check_signer(is_signer) THEN Fail("MissingRequiredSignature")
    ELSE IF VaultPda # st.vault_pda THEN Fail("InvalidSeeds")
    ELSE IF ~can_transfer(usdc, who, amount) THEN Fail("TokenError")
    ELSE
      LET usdc1 == token_transfer(usdc, who, "vault", amount)
          pps1 == settle_pps(st)
      IN
      IF pps1 = -1 THEN Fail("InvalidInstructionData")
      ELSE IF pps1 = 0 THEN Fail("Panic")
      ELSE
        LET sh == deposit_shares(amount, pps1)
            mint_amt == try_into_u64(sh)
        IN
        IF mint_amt = -1 THEN Fail("InvalidInstructionData")
        ELSE IF ShareSupply + mint_amt > U64Max THEN Fail("TokenError")
        ELSE
          LET ts1 == checked_add_u128(st.total_shares, sh) IN
          IF ts1 = -1 THEN Fail("InvalidInstructionData")
          ELSE Res("Ok",
                   [st EXCEPT !.pps = pps1,
                              !.buffered_base = settle_buffered(st),
                              !.total_shares = ts1],
                   bd, bm, usdc1,
                   [shares EXCEPT ![who] = @ + mint_amt],
                   mint_amt)

---------------------------------------------------------------------------
(* op_withdraw                                                             *)

\* shares * pps / RAY, -1 when the product overflows
withdraw_amount(shares_burn, pps) ==
    LET prod == checked_mul_u128(shares_burn, pps) IN
    IF prod = -1 THEN -1 ELSE prod \div RAY

withdraw_result(who, is_signer, shares_burn) ==
    IF ~check_signer(is_signer) THEN Fail("MissingRequiredSignature")
    ELSE IF VaultPda # st.vault_pda THEN Fail("InvalidSeeds")
    ELSE IF shares[who] < shares_burn THEN Fail("TokenError")
    ELSE
      LET shares1 == [shares EXCEPT ![who] = @ - shares_burn]
          amount_out_u128 == withdraw_amount(shares_burn, st.pps)
      IN
      IF amount_out_u128 = -1 THEN Fail("InvalidInstructionData")
      ELSE
        LET amount_out == try_into_u64(amount_out_u128) IN
        IF amount_out = -1 THEN Fail("InvalidInstructionData")
        ELSE IF ~can_transfer(usdc, "vault", amount_out) THEN Fail("TokenError")
        ELSE
          LET ts1 == checked_sub_u128(st.total_shares, shares_burn) IN
          IF ts1 = -1 THEN Fail("InvalidInstructionData")
          ELSE Res("Ok", [st EXCEPT !.total_shares = ts1], bd, bm,
                   token_transfer(usdc, "vault", who, amount_out),
                   shares1, amount_out)

---------------------------------------------------------------------------
(* op_donate                                                               *)

\* u64 `a * b`: -1 stands for the panic of a build with overflow checks
mul_u64(a, b) ==
    IF a * b <= U64Max THEN a * b
    ELSE IF overflow_checks THEN -1 ELSE (a * b) % (U64Max + 1)

\* u64 `a - b`
sub_u64(a, b) ==
    IF b <= a THEN a - b
    ELSE IF overflow_checks THEN -1 ELSE a - b + U64Max + 1

\* let boost = amount * boost_bps / 10_000;
donate_boost(amount, boost_bps) ==
    LET prod == mul_u64(amount, boost_bps) IN
    IF prod = -1 THEN -1 ELSE prod \div BPS_DENOM

\* let base = amount - boost;
donate_base(amount, boost) == sub_u64(amount, boost)

\* bump PPS or buffer: the VaultState after it, pps -1 on overflow
apply_yield(s, base) ==
    IF s.total_shares > 0
    THEN [s EXCEPT !.pps = checked_add_u128(s.pps, (base * RAY) \div s.total_shares)]
    ELSE [s EXCEPT !.buffered_base = saturating_add_u64(s.buffered_base, base)]

\* Mutant of bind_epoch: the donation's epoch always overwrites the record's.
bind_epoch_always(d, epoch) == [d EXCEPT !.epoch = epoch]

\* if bd.epoch == 0 { bd.epoch = epoch; }
bind_epoch(d, epoch) == IF d.epoch = 0 THEN [d EXCEPT !.epoch = epoch] ELSE d

donate_result(who, is_signer, amount, epoch, boost_bps, with_bd) ==
    IF ~check_signer(is_signer) THEN Fail("MissingRequiredSignature")
    ELSE IF VaultPda # st.vault_pda THEN Fail("InvalidSeeds")
    ELSE IF ~can_transfer(usdc, who, amount) THEN Fail("TokenError")
    ELSE
      LET usdc1 == token_transfer(usdc, who, "vault", amount)
          boost == donate_boost(amount, boost_bps)
      IN
      IF boost = -1 THEN Fail("Panic")
      ELSE
        LET base == donate_base(amount, boost) IN
        IF base = -1 THEN Fail("Panic")
        ELSE IF boost > 0 /\ ~can_transfer(usdc1, "vault", boost) THEN Fail("TokenError")
        ELSE
          LET usdc2 == IF boost > 0
                       THEN token_transfer(usdc1, "vault", "boost", boost)
                       ELSE usdc1
              st1 == apply_yield(st, base)
          IN
          IF st1.pps = -1 THEN Fail("InvalidInstructionData")
          ELSE IF ~with_bd
          THEN Res("Ok", st1, bd, bm, usdc2, shares, boost)
          ELSE
            LET bd1 == bind_epoch(bd, epoch) IN
            IF bd1.epoch # epoch THEN Fail("InvalidArgument")
            ELSE Res("Ok", st1,
                     [bd1 EXCEPT !.boost_total = saturating_add_u64(@, boost)],
                     bm, usdc2, shares, boost)

---------------------------------------------------------------------------
(* op_post_root                                                            *)

\* Mutant of post_root_result: a posting starts the new epoch with an empty
\* boost_total.
post_root_fresh_total(is_signer, epoch, total_weight, root) ==
    IF ~check_signer(is_signer) THEN Fail("MissingRequiredSignature")
    ELSE Res("Ok", st,
             [bd EXCEPT !.epoch = epoch, !.total_weight = total_weight, !.root = root,
                        !.boost_total = 0],
             bm, usdc, shares, 0)

post_root_result(is_signer, epoch, total_weight, root) ==
    IF ~check_signer(is_signer) THEN Fail("MissingRequiredSignature")
    ELSE Res("Ok", st,
             [bd EXCEPT !.epoch = epoch, !.total_weight = total_weight, !.root = root],
             bm, usdc, shares, 0)

---------------------------------------------------------------------------
(* op_claim                                                                *)

\* Mutant of claim_amount: a remainder-free quotient is rounded down one more.
claim_amount_strict(boost_total, weight, total_weight) ==
    (saturating_mul_u128(boost_total, weight) - 1) \div total_weight

\* Mutant of claim_amount: the quotient is rounded up.
claim_amount_ceil(boost_total, weight, total_weight) ==
    (saturating_mul_u128(boost_total, weight) + total_weight - 1) \div total_weight

\* (bd.boost_total as u128).saturating_mul(weight) / bd.total_weight
claim_amount(boost_total, weight, total_weight) ==
    saturating_mul_u128(boost_total, weight) \div total_weight

claim_result(who, is_signer, epoch, index, weight, proof) ==
    IF ~check_signer(is_signer) THEN Fail("MissingRequiredSignature")
    ELSE IF VaultPda # st.vault_pda THEN Fail("InvalidSeeds")
    ELSE IF bd.epoch # epoch THEN Fail("InvalidArgument")
    ELSE IF bd.total_weight = 0 THEN Fail("InvalidInstructionData")
    ELSE IF index \div 8 >= BITMAP_BYTES THEN Fail("InvalidInstructionData")
    ELSE IF bit_is_set(bm, index) THEN Fail("Custom1")
    ELSE IF Len(proof) > MAX_PROOF THEN Fail("InvalidInstructionData")
    ELSE IF ~verify_merkle(bd.root, leaf_hash(index, who, weight), proof)
         THEN Fail("InvalidArgument")
    ELSE
      LET claim == try_into_u64(claim_amount(bd.boost_total, weight, bd.total_weight)) IN
      IF claim = -1 THEN Fail("InvalidInstructionData")
      ELSE IF ~can_transfer(usdc, "boost", claim) THEN Fail("TokenError")
      ELSE Res("Ok", st, bd, bit_set(bm, index),
               token_transfer(usdc, "boost", who, claim), shares, claim)

---------------------------------------------------------------------------
(* Instruction inputs                                                      *)

MaxOps == 4
Wallet == 3
MaxAmount == 2

Operator == "bob"
Amounts == 1..MaxAmount

\* boost_bps: none, half, all, twice the denominator
BpsValues == {0, BPS_DENOM \div 2, BPS_DENOM, 2 * BPS_DENOM}

Leaf(index, claimer, weight) == [index |-> index, claimer |-> claimer, weight |-> weight]

LeafHashOf(l) == leaf_hash(l.index, l.claimer, l.weight)

\* The root an off-chain builder computes for a tree of one to three leaves:
\* ((l1, l2), l3), every pair hashed as verify_merkle hashes it.
RootOf(t) ==
    IF Len(t) = 1 THEN LeafHashOf(t[1])
    ELSE IF Len(t) = 2 THEN hash_pair(LeafHashOf(t[1]), LeafHashOf(t[2]))
    ELSE hash_pair(hash_pair(LeafHashOf(t[1]), LeafHashOf(t[2])), LeafHashOf(t[3]))

\* The sibling path of leaf k of tree t.
ProofOf(t, k) ==
    IF Len(t) = 1 THEN <<>>
    ELSE IF Len(t) = 2 THEN <<LeafHashOf(t[3 - k])>>
    ELSE IF k = 3 THEN <<hash_pair(LeafHashOf(t[1]), LeafHashOf(t[2]))>>
    ELSE <<LeafHashOf(t[3 - k]), LeafHashOf(t[3])>>

LongProof == [i \in 1..(MAX_PROOF + 1) |-> ZeroHash]

\* The claim the owner of leaf k (of the last leaf, when the tree has fewer)
\* makes with the leaf's sibling path.
ClaimOf(t, k, e) ==
    LET j == Min(k, Len(t)) IN
    [who |-> t[j].claimer, sg |-> TRUE, epoch |-> e, index |-> t[j].index,
     weight |-> t[j].weight, proof |-> ProofOf(t, j)]

OtherUser(u) == IF u = "alice" THEN "bob" ELSE "alice"

\* The claims of the leaves of the trees ts under the epochs es, those claims
\* with one field changed, and three malformed claims.
ClaimsOf(ts, es) ==
    UNION {
        {ClaimOf(t, k, e),
         [ClaimOf(t, k, e) EXCEPT !.weight = IF @ > 1 THEN @ - 1 ELSE @ + 1],
         [ClaimOf(t, k, e) EXCEPT !.who = OtherUser(@)],
         [ClaimOf(t, k, e) EXCEPT !.proof = <<ZeroHash>>]} :
        t \in ts, k \in 1..3, e \in es}

Malformed(c) ==
    {[c EXCEPT !.sg = FALSE],
     [c EXCEPT !.index = 8 * BITMAP_BYTES],
     [c EXCEPT !.proof = LongProof]}

\* A partition of total weight 3.
TreeA == <<Leaf(0, "alice", 1), Leaf(9, "bob", 2)>>

\* The trees posted under the boost specification.
TreeBal == <<Leaf(0, "alice", 100), Leaf(1, "bob", 100), Leaf(9, "alice", 100)>>
TreeOdd == <<Leaf(0, "alice", 100), Leaf(1, "bob", 201)>>
TreeBig == <<Leaf(0, "bob", U128Max)>>
TreeDup == <<Leaf(0, "alice", 100), Leaf(0, "bob", 100)>>
BoostTrees == {TreeBal, TreeOdd, TreeBig, TreeDup}

RECURSIVE SumWeights(_)
SumWeights(t) == IF t = <<>> THEN 0 ELSE Head(t).weight + SumWeights(Tail(t))

\* A posting whose root is that of a tree with distinct indices and weights
\* summing to at most the posted total_weight.
WellFormedRoot(root, total_weight) ==
    \E t \in BoostTrees :
        /\ RootOf(t) = root
        /\ Cardinality({t[k].index : k \in DOMAIN t}) = Len(t)
        /\ SumWeights(t) <= total_weight

InitInputs ==
    {[admin |-> a, sg |-> TRUE, operator |-> Operator] : a \in Users}
    \cup {[admin |-> Admin, sg |-> FALSE, operator |-> Operator]}

DepositInputs ==
    {[who |-> u, sg |-> TRUE, amount |-> a] : u \in Users, a \in Amounts}
    \cup {[who |-> "alice", sg |-> FALSE, amount |-> 1]}

WithdrawInputs == DepositInputs

\* with_bd FALSE: no epoch record is passed
DonateInputs ==
    {[who |-> u, sg |-> TRUE, amount |-> a, epoch |-> e, bps |-> b, with_bd |-> e # 0] :
        u \in {Operator}, a \in Amounts, e \in 0..1, b \in BpsValues}
    \cup {[who |-> "alice", sg |-> FALSE, amount |-> 1, epoch |-> 1, bps |-> 0,
           with_bd |-> TRUE]}

PostRootInputs ==
    {[who |-> Operator, sg |-> TRUE, epoch |-> 1, total_weight |-> 3, root |-> RootOf(TreeA)],
     [who |-> "alice", sg |-> TRUE, epoch |-> 2, total_weight |-> 0, root |-> ZeroHash],
     [who |-> Operator, sg |-> FALSE, epoch |-> 1, total_weight |-> 3, root |-> RootOf(TreeA)]}

ClaimInputs ==
    {ClaimOf(TreeA, k, 1) : k \in 1..2}
    \cup {[ClaimOf(TreeA, 1, 1) EXCEPT !.weight = 2], ClaimOf(TreeA, 1, 2)}
    \cup Malformed(ClaimOf(TreeA, 1, 1))

Indices == {0, 1, 9, 8 * BITMAP_BYTES}

---------------------------------------------------------------------------
(* The state machine                                                       *)

NoOp ==
    [op |-> "none", who |-> NoKey, amount |-> 0, epoch |-> 0, index |-> 0,
     weight |-> 0, bps |-> 0, with_bd |-> FALSE, out |-> 0, base |-> 0,
     folded |-> 0]

Init ==
    /\ st = ZeroVaultState
    /\ bd = ZeroBoostDistributor
    /\ bm = ZeroBitmap
    /\ usdc = [a \in Users \cup {"vault", "boost"} |-> IF a \in Users THEN Wallet ELSE 0]
    /\ shares = [u \in Users |-> 0]
    /\ overflow_checks \in BOOLEAN
    /\ last = NoOp
    /\ ops = MaxOps
    /\ paid_count = [i \in Indices |-> 0]
    /\ paid_sum = 0
    /\ paid_epoch = [i \in Indices |-> 0]
    /\ donated = FALSE
    /\ posted_ok = TRUE

\* The runtime commits the writes and transfers of an instruction that
\* returned Ok and discards those of one that did not.
Commit(r, info) ==
    IF r.err = "Ok"
    THEN /\ ops > 0
         /\ st' = r.st
         /\ bd' = r.bd
         /\ bm' = r.bm
         /\ usdc' = r.usdc
         /\ shares' = r.shares
         /\ last' = info
         /\ ops' = ops - 1
         /\ UNCHANGED overflow_checks
    ELSE UNCHANGED <<st, bd, bm, usdc, shares, last, ops, overflow_checks>>

op_init(admin, is_signer, operator) ==
    LET r == init_result(admin, is_signer, operator) IN
    /\ Commit(r, [NoOp EXCEPT !.op = "init", !.who = admin])
    /\ UNCHANGED <<paid_count, paid_sum, paid_epoch, donated, posted_ok>>

op_deposit(who, is_signer, amount) ==
    LET r == deposit_result(who, is_signer, amount) IN
    /\ Commit(r, [NoOp EXCEPT !.op = "deposit", !.who = who, !.amount = amount,
                              !.out = r.out,
                              !.folded = st.buffered_base - r.st.buffered_base])
    /\ UNCHANGED <<paid_count, paid_sum, paid_epoch, donated, posted_ok>>

op_withdraw(who, is_signer, shares_burn) ==
    LET r == withdraw_result(who, is_signer, shares_burn) IN
    /\ Commit(r, [NoOp EXCEPT !.op = "withdraw", !.who = who, !.amount = shares_burn,
                              !.out = r.out])
    /\ UNCHANGED <<paid_count, paid_sum, paid_epoch, donated, posted_ok>>

op_donate(who, is_signer, amount, epoch, boost_bps, with_bd) ==
    LET r == donate_result(who, is_signer, amount, epoch, boost_bps, with_bd) IN
    /\ Commit(r, [NoOp EXCEPT !.op = "donate", !.who = who, !.amount = amount,
                              !.epoch = epoch, !.bps = boost_bps,
                              !.with_bd = with_bd, !.out = r.out,
                              !.base = donate_base(amount, r.out)])
    /\ donated' = (donated \/ r.err = "Ok")
    /\ UNCHANGED <<paid_count, paid_sum, paid_epoch, posted_ok>>

op_post_root(who, is_signer, epoch, total_weight, root) ==
    LET r == post_root_result(is_signer, epoch, total_weight, root) IN
    /\ Commit(r, [NoOp EXCEPT !.op = "post_root", !.who = who, !.epoch = epoch])
    /\ paid_sum' = IF r.err = "Ok" THEN 0 ELSE paid_sum
    /\ posted_ok' = (posted_ok /\ (r.err = "Ok" => WellFormedRoot(root, total_weight)))
    /\ UNCHANGED <<paid_count, paid_epoch, donated>>

op_claim(who, is_signer, epoch, index, weight, proof) ==
    LET r == claim_result(who, is_signer, epoch, index, weight, proof) IN
    /\ Commit(r, [NoOp EXCEPT !.op = "claim", !.who = who, !.epoch = epoch,
                              !.index = index, !.weight = weight, !.out = r.out])
    /\ paid_count' = IF r.err = "Ok"
                     THEN [paid_count EXCEPT ![index] = Min(@ + 1, 2)]
                     ELSE paid_count
    /\ paid_sum' = IF r.err = "Ok" THEN paid_sum + r.out ELSE paid_sum
    /\ paid_epoch' = IF r.err = "Ok"
                     THEN [paid_epoch EXCEPT ![index] = epoch]
                     ELSE paid_epoch
    /\ UNCHANGED <<donated, posted_ok>>

Next ==
    \/ \E i \in InitInputs : op_init(i.admin, i.sg, i.operator)
    \/ \E i \in DepositInputs : op_deposit(i.who, i.sg, i.amount)
    \/ \E i \in WithdrawInputs : op_withdraw(i.who, i.sg, i.amount)
    \/ \E i \in DonateInputs :
          op_donate(i.who, i.sg, i.amount, i.epoch, i.bps, i.with_bd)
    \/ \E i \in PostRootInputs :
          op_post_root(i.who, i.sg, i.epoch, i.total_weight, i.root)
    \/ \E i \in ClaimInputs :
          op_claim(i.who, i.sg, i.epoch, i.index, i.weight, i.proof)

Spec == Init /\ [][Next]_vars

---------------------------------------------------------------------------
(* The boost distribution on an initialized vault: the instructions that   *)
(* read or write the BoostDistributor and the bitmap, with total weights   *)
(* of 300 and 301, weights of 100, donations of 301 and 900, a leaf of the *)
(* largest weight, and two leaves sharing an index.                        *)

MaxBoostOps == 5
BoostWallet == 1201

\* The total weight posted with each tree; TreeOdd is also posted with a
\* total weight below the sum of its weights.
Postings ==
    {<<TreeBal, 300>>, <<TreeOdd, 301>>, <<TreeOdd, 300>>, <<TreeBig, U128Max>>,
     <<TreeDup, 300>>}

BoostEpochs == {1, 2}

BoostDonateInputs ==
    {[who |-> "bob", sg |-> TRUE, amount |-> a, epoch |-> e, bps |-> b, with_bd |-> e # 0] :
        a \in {301, 900}, e \in {0} \cup BoostEpochs, b \in {BPS_DENOM}}

\* Every posting under epoch 1, the balanced tree also under epoch 2.
BoostPostRootInputs ==
    {[who |-> Operator, sg |-> TRUE, epoch |-> 1, total_weight |-> p[2], root |-> RootOf(p[1])] :
        p \in Postings}
    \cup {[who |-> Operator, sg |-> TRUE, epoch |-> 2, total_weight |-> 300,
           root |-> RootOf(TreeBal)]}

BoostClaimInputs ==
    {ClaimOf(t, k, e) : t \in BoostTrees, k \in 1..3, e \in BoostEpochs}
    \cup ClaimsOf({TreeOdd}, {1})
    \cup Malformed(ClaimOf(TreeBal, 1, 1))

InitBoost ==
    /\ st = new_vault_state(Admin, Operator)
    /\ bd = ZeroBoostDistributor
    /\ bm = ZeroBitmap
    /\ usdc = [a \in Users \cup {"vault", "boost"} |-> IF a \in Users THEN BoostWallet ELSE 0]
    /\ shares = [u \in Users |-> 0]
    /\ overflow_checks \in BOOLEAN
    /\ last = [NoOp EXCEPT !.op = "init", !.who = Admin]
    /\ ops = MaxBoostOps
    /\ paid_count = [i \in Indices |-> 0]
    /\ paid_sum = 0
    /\ paid_epoch = [i \in Indices |-> 0]
    /\ donated = FALSE
    /\ posted_ok = TRUE

NextBoost ==
    \/ \E i \in BoostDonateInputs :
          op_donate(i.who, i.sg, i.amount, i.epoch, i.bps, i.with_bd)
    \/ \E i \in BoostPostRootInputs :
          op_post_root(i.who, i.sg, i.epoch, i.total_weight, i.root)
    \/ \E i \in BoostClaimInputs :
          op_claim(i.who, i.sg, i.epoch, i.index, i.weight, i.proof)

SpecBoost == InitBoost /\ [][NextBoost]_vars

---------------------------------------------------------------------------
(* Properties                                                              *)

Run(c) == claim_result(c.who, c.sg, c.epoch, c.index, c.weight, c.proof)

\* The tree whose root the BoostDistributor holds, <<>> when it holds none
\* of the posted roots.
PostedTree ==
    IF \E t \in BoostTrees : RootOf(t) = bd.root
    THEN CHOOSE t \in BoostTrees : RootOf(t) = bd.root
    ELSE <<>>

\* The posted leaves have distinct indices and weights that sum to at most
\* total_weight.
WellFormedPosting ==
    /\ Cardinality({PostedTree[k].index : k \in DOMAIN PostedTree}) = Len(PostedTree)
    /\ SumWeights(PostedTree) <= bd.total_weight

\* C1: an index is paid at most once, whatever is posted or donated in
\* between; once index i has been paid, every signed claim that names the
\* record's epoch (total_weight non-zero) and index i returns AlreadyClaimed
\* (Custom(1)), pays nothing and leaves the bitmap and the balances as they
\* are, whichever of two leaves sharing the index was paid first.
C1_ClaimAtMostOnce ==
    /\ \A i \in Indices : paid_count[i] <= 1
    /\ \A c \in BoostClaimInputs :
          (paid_count[c.index] >= 1 /\ c.sg /\ c.epoch = bd.epoch
              /\ bd.total_weight # 0) =>
              LET r == Run(c)
              IN  /\ r.err = "Custom1"
                  /\ r.out = 0
                  /\ r.bm = bm
                  /\ r.usdc = usdc

\* Index 0 of the tree with two leaves of index 0 has been paid, a donation
\* was committed after it, and the other leaf's claim, whose proof verifies,
\* is answered AlreadyClaimed.
C1_Witness ==
    /\ last.op = "donate" /\ last.with_bd /\ last.out > 0
    /\ bd.root = RootOf(TreeDup)
    /\ paid_count[0] = 1 /\ paid_sum > 0
    /\ \E c \in BoostClaimInputs :
          /\ c.index = 0 /\ c.sg /\ c.epoch = bd.epoch
          /\ verify_merkle(bd.root, leaf_hash(c.index, c.who, c.weight), c.proof)
          /\ Run(c).err = "Custom1"

\* C2: while one well-formed posting stays bound, the payouts of the
\* committed claims sum to at most the current boost_total, donations in
\* between included; with total_weight 300 and boost_total 900 a claim of
\* weight 100 is paid 300.
C2_PayoutsWithinBoostTotal ==
    /\ WellFormedPosting => paid_sum <= bd.boost_total
    /\ (last.op = "claim" /\ bd.total_weight = 300 /\ bd.boost_total = 900
            /\ last.weight = 100) => last.out = 300

\* The three leaves of weight 100 have been paid 300 each out of a
\* boost_total of 900: the sum equals boost_total.
C2_Witness ==
    /\ last.op = "claim" /\ last.out = 300
    /\ bd.root = RootOf(TreeBal) /\ bd.total_weight = 300 /\ bd.boost_total = 900
    /\ paid_count[0] = 1 /\ paid_count[1] = 1 /\ paid_count[9] = 1
    /\ paid_sum = bd.boost_total

\* USDC the share holders can redeem at the current price.
HolderValue == SumOver([u \in Users |-> (shares[u] * st.pps) \div RAY], Users)

\* C3: total_shares equals the supply of the share mint.  Refuted: op_init
\* carries no guard against an initialized vault and writes total_shares = 0
\* while the minted shares stay in circulation.
C3_SharesMatchSupply == st.total_shares = ShareSupply

\* C4: the vault's USDC covers what the share holders can redeem at the
\* current price.  Refuted: donate accepts boost_bps above the denominator,
\* forwards more than it pulled and credits a wrapped base to pps.
C4_VaultCoversHolders == usdc["vault"] >= HolderValue

\* C5: once the vault is initialized pps is at least RAY, never decreases,
\* and changes only in a donate or a deposit.  Refuted: a second op_init
\* writes pps = RAY over a price that yield had raised.
C5_PpsMonotone ==
    [][st.vault_pda # NoPda =>
          /\ st'.pps >= st.pps
          /\ st'.pps >= RAY
          /\ st'.pps # st.pps => last'.op \in {"donate", "deposit"}]_vars

\* Donations that carry the epoch record, under every epoch.
EpochDonations ==
    {[d EXCEPT !.epoch = e, !.with_bd = TRUE] : d \in DonateInputs, e \in 0..3}

\* Claims under every epoch.
EpochClaims == {[c EXCEPT !.epoch = e] : c \in ClaimInputs, e \in 0..3}

Donate(d) == donate_result(d.who, d.sg, d.amount, d.epoch, d.bps, d.with_bd)

\* C6: while the record is bound to a non-zero epoch E, a donation that
\* carries the record and names another epoch is rejected, with
\* InvalidArgument when nothing else is wrong with it, and a signed claim on
\* the initialized vault that names another epoch is rejected with
\* InvalidArgument; a donation changes the record's epoch only from 0, to
\* the epoch it names.
C6_EpochMismatchRejected ==
    /\ \A d \in EpochDonations :
          LET r == Donate(d)
          IN  /\ (bd.epoch # 0 /\ d.epoch # bd.epoch) =>
                    /\ r.err # "Ok"
                    /\ r.bd = bd
                    /\ Donate([d EXCEPT !.with_bd = FALSE]).err = "Ok"
                          => r.err = "InvalidArgument"
              /\ (r.err = "Ok" /\ r.bd.epoch # bd.epoch) =>
                    bd.epoch = 0 /\ r.bd.epoch = d.epoch
    /\ \A c \in EpochClaims :
          (bd.epoch # 0 /\ c.epoch # bd.epoch) =>
              LET r == Run(c)
              IN  /\ r.err # "Ok"
                  /\ r.bd = bd
                  /\ (c.sg /\ st.vault_pda = VaultPda) => r.err = "InvalidArgument"

\* The record is bound to a non-zero epoch by a committed donation, and a
\* donation and a claim that name another non-zero epoch, with nothing else
\* wrong, are answered InvalidArgument.
C6_Witness ==
    /\ last.op = "donate" /\ last.with_bd /\ bd.epoch = last.epoch /\ bd.epoch # 0
    /\ \E d \in EpochDonations :
          /\ d.epoch \notin {0, bd.epoch}
          /\ Donate([d EXCEPT !.with_bd = FALSE]).err = "Ok"
          /\ Donate(d).err = "InvalidArgument"
    /\ \E c \in EpochClaims :
          /\ c.epoch \notin {0, bd.epoch} /\ c.sg
          /\ Run(c).err = "InvalidArgument"

\* C7: a committed donation splits amount into boost =
\* floor(amount * boost_bps / BPS_DENOM) and base = amount - boost with
\* base + boost = amount and 0 <= boost <= amount.  Refuted: boost_bps above
\* the denominator makes boost exceed amount and base wrap.
C7_DonationSplit ==
    last.op = "donate" =>
        /\ last.out = (last.amount * last.bps) \div BPS_DENOM
        /\ last.base + last.out = last.amount
        /\ 0 <= last.out /\ last.out <= last.amount

\* <<quotient, remainder>> of a * b by c for b < c, without forming a * b.
RECURSIVE MulDivQR(_, _, _)
MulDivQR(a, b, c) ==
    IF a = 0 THEN <<0, 0>>
    ELSE LET h == MulDivQR(a \div 2, b, c)
             t == 2 * h[2] + (IF a % 2 = 1 THEN b ELSE 0)
         IN  <<2 * h[1] + t \div c, t % c>>

\* floor(a * b / c), exact for every a, b, c of the modelled widths.
FloorMulDiv(a, b, c) == a * (b \div c) + MulDivQR(a, b % c, c)[1]

\* C8: a committed claim pays exactly floor(boost_total * weight /
\* total_weight).  Refuted: the product is formed in u128 with
\* saturating_mul, so it is clamped when boost_total * weight needs more
\* than 128 bits.
C8_PayoutIsExactFloor ==
    last.op = "claim" =>
        last.out = FloorMulDiv(bd.boost_total, last.weight, bd.total_weight)

\* C9 as stated: with total_weight 301 and boost_total 301 a claim of weight
\* 100 is paid 99.
C9_Stated ==
    (last.op = "claim" /\ bd.total_weight = 301 /\ bd.boost_total = 301
        /\ last.weight = 100) => last.out = 99

\* C9: with total_weight 301 and boost_total 301 a claim of weight 100 is
\* paid floor(301 * 100 / 301) = 100.
C9_OddRemainderPayout ==
    (last.op = "claim" /\ bd.total_weight = 301 /\ bd.boost_total = 301
        /\ last.weight = 100) => last.out = 100

\* A claim of weight 100 has been paid out of boost_total 301 under
\* total_weight 301.
C9_Witness ==
    /\ last.op = "claim" /\ last.weight = 100
    /\ bd.total_weight = 301 /\ bd.boost_total = 301
    /\ bd.root = RootOf(TreeOdd)
    /\ paid_count[0] = 1

\* C10: after a committed deposit that leaves shares outstanding nothing is
\* left in buffered_base.  Refuted: the settlement runs before the mint and
\* only when total_shares > 0, so the first deposit after a donation to the
\* empty vault leaves the buffer for a later deposit.
C10_BufferFoldedByFirstDeposit ==
    (last.op = "deposit" /\ st.total_shares > 0) => st.buffered_base = 0

\* The record after the settlement step of op_deposit.
Settled(s) == [s EXCEPT !.pps = settle_pps(s), !.buffered_base = settle_buffered(s)]

\* C11: a settlement that folds the buffer adds floor(buffered_base * RAY /
\* total_shares) to pps and leaves buffered_base = 0; a settlement with
\* buffered_base = 0 or total_shares = 0 changes neither; settling a settled
\* record is a no-op; and a committed deposit changes pps and buffered_base
\* exactly as its settlement does.
C11_SettleIdempotent ==
    [][/\ (st'.buffered_base > 0 /\ st'.total_shares > 0 /\ settle_pps(st)' # -1) =>
             /\ Settled(st)'.buffered_base = 0
             /\ Settled(st)'.pps =
                   st'.pps + (st'.buffered_base * RAY) \div st'.total_shares
       /\ (st'.buffered_base = 0 \/ st'.total_shares = 0) => Settled(st)' = st'
       /\ settle_pps(st)' # -1 => Settled(Settled(st))' = Settled(st)'
       /\ (last'.op = "deposit" /\ ops' # ops) =>
             /\ st'.pps = Settled(st).pps
             /\ st'.buffered_base = Settled(st).buffered_base
             /\ last'.folded > 0 => st'.buffered_base = 0]_vars

\* A deposit has folded a non-empty buffer into pps: the buffer is empty, pps
\* is above RAY, and a further settlement changes nothing.
C11_Witness ==
    /\ last.op = "deposit" /\ last.folded > 0
    /\ st.buffered_base = 0 /\ st.pps > RAY /\ st.total_shares > 0
    /\ Settled(st) = st

\* C12: right after a committed deposit, a withdraw of exactly the shares it
\* minted pays at most the amount deposited; and while no donation has been
\* committed no user holds more USDC than they started with (what a user
\* withdrew is at most what they deposited).
C12_RoundTripFavorsVault ==
    /\ last.op = "deposit" =>
          LET r == withdraw_result(last.who, TRUE, last.out)
          IN  r.err = "Ok" => r.out <= last.amount
    /\ ~donated => \A u \in Users : usdc[u] <= Wallet

\* A deposit was committed at a price above RAY and minted shares, and
\* withdrawing those shares succeeds and pays less than was deposited.
C12_Witness ==
    /\ last.op = "deposit" /\ st.pps > RAY /\ donated /\ last.out > 0
    /\ withdraw_result(last.who, TRUE, last.out).err = "Ok"
    /\ withdraw_result(last.who, TRUE, last.out).out < last.amount

\* C13: bit i of the bitmap is set exactly when a claim for index i has been
\* paid under the epoch the record is bound to now.  Refuted: op_claim takes
\* whatever bitmap it is given and op_post_root never clears it, so a bit
\* paid under an earlier epoch stays set under the next one.
C13_BitIffPaidUnderBoundEpoch ==
    \A i \in Indices \ {8 * BITMAP_BYTES} :
        bit_is_set(bm, i) <=> (paid_epoch[i] # 0 /\ paid_epoch[i] = bd.epoch)

\* Weights a claim may put in place of its leaf's weight.
TamperWeights == {1, 99, 100, 101, 201, U128Max}

\* The claim c passes every check of op_claim up to the proof, and its proof
\* verifies for the leaf (c.index, c.who, c.weight).
ProvenUnclaimed(c) ==
    /\ c.sg /\ st.vault_pda = VaultPda
    /\ c.epoch = bd.epoch /\ bd.total_weight # 0
    /\ c.index \div 8 < BITMAP_BYTES /\ ~bit_is_set(bm, c.index)
    /\ Len(c.proof) <= MAX_PROOF
    /\ verify_merkle(bd.root, leaf_hash(c.index, c.who, c.weight), c.proof)

\* C14: a claim that would pass with its leaf's weight, presented with any
\* other weight, returns ProofInvalid (InvalidArgument), moves no tokens and
\* leaves the bit of its index unset, whatever the payout for the presented
\* weight would be.
C14_WeightBoundToLeaf ==
    \A c \in BoostClaimInputs : \A w \in TamperWeights :
        (w # c.weight /\ ProvenUnclaimed(c)) =>
            LET r == Run([c EXCEPT !.weight = w])
            IN  /\ r.err = "InvalidArgument"
                /\ r.usdc = usdc
                /\ ~bit_is_set(r.bm, c.index)

\* Custody is funded, a claim would be paid with its leaf's weight, and with
\* another weight, whose payout custody could cover, it is answered
\* ProofInvalid.
C14_Witness ==
    /\ bd.boost_total > 0
    /\ \E c \in BoostClaimInputs : \E w \in TamperWeights :
          /\ w # c.weight
          /\ Run(c).err = "Ok" /\ Run(c).out > 0
          /\ claim_amount(bd.boost_total, w, bd.total_weight) <= usdc["boost"]
          /\ Run([c EXCEPT !.weight = w]).err = "InvalidArgument"

\* C16: a committed op_post_root was signed by the operator recorded in the
\* VaultState.  Refuted: op_post_root checks that its second account signed
\* and never compares it with st.operator.
C16_PostRootByOperator ==
    [][(last'.op = "post_root" /\ ops' # ops /\ st.vault_pda = VaultPda) =>
          last'.who = st.operator]_vars

\* C17: once the VaultState is initialized only deposit, withdraw and donate
\* change it.  Refuted: op_init has no guard against an initialized record
\* and writes total_shares = 0, pps = RAY, buffered_base = 0 over it.
C17_InitOnce ==
    [][st.vault_pda # NoPda =>
          (st' # st => last'.op \in {"deposit", "withdraw", "donate"})]_vars

\* C18 as stated: a signed withdraw of more shares than total_shares on an
\* initialized vault fails with InsufficientShares (the checked_sub error),
\* and one of at most total_shares pays floor(shares * pps / RAY) and lowers
\* total_shares by shares.
C18_Stated ==
    \A w \in WithdrawInputs :
        LET r == withdraw_result(w.who, w.sg, w.amount) IN
        (w.sg /\ st.vault_pda = VaultPda) =>
            IF w.amount > st.total_shares
            THEN r.err = "InvalidInstructionData"
            ELSE /\ r.err = "Ok"
                 /\ r.out = (w.amount * st.pps) \div RAY
                 /\ r.st.total_shares = st.total_shares - w.amount

\* C18, amended: a withdraw of more shares than total_shares fails, pays
\* nothing and leaves total_shares and pps alone; it fails with the token
\* program's error when the caller holds fewer shares than asked or the
\* vault cannot pay floor(shares * pps / RAY), and with InsufficientShares
\* otherwise.  A withdraw that succeeds has shares <= total_shares, pays
\* floor(shares * pps / RAY), lowers total_shares by exactly shares and
\* leaves pps alone, so total_shares never goes below zero.
C18_WithdrawBounded ==
    \A w \in WithdrawInputs :
        LET r == withdraw_result(w.who, w.sg, w.amount)
            pay == withdraw_amount(w.amount, st.pps)
        IN
        /\ (w.sg /\ st.vault_pda = VaultPda /\ w.amount > st.total_shares) =>
              /\ r.err = IF \/ shares[w.who] < w.amount
                            \/ (pay \in 0..U64Max /\ usdc["vault"] < pay)
                         THEN "TokenError" ELSE "InvalidInstructionData"
              /\ r.out = 0
              /\ r.usdc = usdc
              /\ r.st.total_shares = st.total_shares
              /\ r.st.pps = st.pps
        /\ r.err = "Ok" =>
              /\ w.amount <= st.total_shares
              /\ r.out = (w.amount * st.pps) \div RAY
              /\ r.usdc[w.who] = usdc[w.who] + r.out
              /\ r.st.total_shares = st.total_shares - w.amount
              /\ r.st.total_shares \in 0..U128Max
              /\ r.st.pps = st.pps

C18_Witness ==
    /\ last.op = "withdraw" /\ last.out > 0
    /\ \E w \in WithdrawInputs :
          /\ w.sg /\ w.amount > st.total_shares
          /\ withdraw_result(w.who, w.sg, w.amount).err = "TokenError"

C20_CustodyCoversUnclaimed ==
    (posted_ok /\ WellFormedPosting) =>
        \A c \in BoostClaimInputs :
            ProvenUnclaimed(c) =>
                /\ claim_amount(bd.boost_total, c.weight, bd.total_weight) <= usdc["boost"]
                /\ Run(c).err # "TokenError"

\* C21: a claim that would pass when signed by its leaf's claimer, presented
\* with the same index, weight and proof but signed by another identity,
\* returns ProofInvalid (InvalidArgument), moves no tokens and leaves the bit
\* of its index unset, so the leaf's claimer can still claim it.
C21_ClaimantBoundToLeaf ==
    \A c \in BoostClaimInputs : \A b \in Users \ {c.who} :
        ProvenUnclaimed(c) =>
            LET r == Run([c EXCEPT !.who = b])
            IN  /\ r.err = "InvalidArgument"
                /\ r.usdc = usdc
                /\ ~bit_is_set(r.bm, c.index)
                /\ r.bd = bd

\* Custody is funded, a claim would be paid to its leaf's claimer, and signed
\* by the other identity, whom custody could pay as well, it is answered
\* ProofInvalid.
C21_Witness ==
    /\ bd.boost_total > 0
    /\ \E c \in BoostClaimInputs : \E b \in Users \ {c.who} :
          /\ Run(c).err = "Ok" /\ Run(c).out > 0
          /\ Run([c EXCEPT !.who = b]).err = "InvalidArgument"

===========================================================================
